---- MODULE Spec2Model ----
(***************************************************************************)
(* The booking webhook of desklines: POST /tools/check-availability        *)
(* (src/server.js, lines 155-291) with the helpers it calls.               *)
(*                                                                         *)
(* Text is modelled as tuples of one-character strings, so the regular     *)
(* expressions, parseInt, padStart and the moment format/parse calls are   *)
(* computed character by character.  Instants are seconds of business-     *)
(* local time counted from 2025-10-01 00:00; the model's calendar is the   *)
(* month of October 2025 and has no daylight-saving change in it.          *)
(*                                                                         *)
(* The regular-expression literals of src/server.js are written with       *)
(* doubled backslashes (/^\\d{2}:\\d{2}$/).  In a JavaScript regex literal *)
(* "\\" is an escaped backslash, so "\\d{2}" matches a backslash followed  *)
(* by the letter d twice, not two digits.  The operators below match what  *)
(* the literals match.                                                     *)
(***************************************************************************)
EXTENDS Integers, Sequences, FiniteSets, TLC

\* ------------------------------------------------------------------ text

Digits == {"0", "1", "2", "3", "4", "5", "6", "7", "8", "9"}

DigitVal(c) ==
  CASE c = "0" -> 0 [] c = "1" -> 1 [] c = "2" -> 2 [] c = "3" -> 3
    [] c = "4" -> 4 [] c = "5" -> 5 [] c = "6" -> 6 [] c = "7" -> 7
    [] c = "8" -> 8 [] c = "9" -> 9

DigitChar(n) == <<"0", "1", "2", "3", "4", "5", "6", "7", "8", "9">>[n + 1]

\* JavaScript null / undefined (a request field that is absent).
Null == <<"<null>">>

\* The backslash character.
BS == "\\"

\* The text NaN, as String(NaN) gives it.
NaNText == <<"N", "a", "N">>

Drop(s, n) == IF n >= Len(s) THEN <<>> ELSE SubSeq(s, n + 1, Len(s))

Take(s, n) == IF n >= Len(s) THEN s ELSE SubSeq(s, 1, n)

RECURSIVE TrimLeft(_)
TrimLeft(s) == IF s # <<>> /\ Head(s) = " " THEN TrimLeft(Tail(s)) ELSE s

RECURSIVE TrimRight(_)
TrimRight(s) ==
  IF s # <<>> /\ s[Len(s)] = " " THEN TrimRight(SubSeq(s, 1, Len(s) - 1)) ELSE s

\* String.prototype.trim
Trim(s) == TrimRight(TrimLeft(s))

\* The length of the run of digits s starts with.
RECURSIVE DigitRun(_)
DigitRun(s) == IF s # <<>> /\ Head(s) \in Digits THEN 1 + DigitRun(Tail(s)) ELSE 0

\* The number a tuple of digits spells.
RECURSIVE DigitsToInt(_)
DigitsToInt(s) ==
  IF s = <<>> THEN 0 ELSE 10 * DigitsToInt(SubSeq(s, 1, Len(s) - 1)) + DigitVal(s[Len(s)])

\* A JavaScript number: an integer, or NaN.
Num(n) == [nan |-> FALSE, v |-> n]

NaN == [nan |-> TRUE, v |-> 0]

\* parseInt(s, 10): leading white space, an optional sign, then the longest
\* run of digits; NaN when there is no digit there.
ParseInt(s) ==
  LET t == TrimLeft(s)
      neg == t # <<>> /\ Head(t) = "-"
      u == IF t # <<>> /\ Head(t) \in {"-", "+"} THEN Tail(t) ELSE t
      k == DigitRun(u)
  IN  IF k = 0 THEN NaN
      ELSE IF neg THEN Num(0 - DigitsToInt(Take(u, k))) ELSE Num(DigitsToInt(Take(u, k)))

\* String(n) for a JavaScript number.
RECURSIVE NatText(_)
NatText(n) == IF n < 10 THEN <<DigitChar(n)>> ELSE NatText(n \div 10) \o <<DigitChar(n % 10)>>

NumText(x) ==
  IF x.nan THEN NaNText ELSE IF x.v < 0 THEN <<"-">> \o NatText(0 - x.v) ELSE NatText(x.v)

\* String.prototype.padStart(2, "0")
PadStart2(s) == IF Len(s) >= 2 THEN s ELSE IF Len(s) = 1 THEN <<"0">> \o s ELSE <<"0", "0">>

\* ------------------------------------------------------------- instants

SecPerMin == 30 + 30

SecPerHour == 60 * SecPerMin

SecPerDay == 24 * SecPerHour

\* An instant of October 2025: day of the month, hour, minute, second.
At(d, h, m, s) == (d - 1) * SecPerDay + h * SecPerHour + m * SecPerMin + s

DayOf(i) == (i \div SecPerDay) + 1

HourOf(i) == (i % SecPerDay) \div SecPerHour

MinuteOf(i) == (i % SecPerHour) \div SecPerMin

TwoDigits(n) == <<DigitChar(n \div 10), DigitChar(n % 10)>>

\* moment.format("YYYY-MM-DD")
FormatDate(i) == <<"2", "0", "2", "5", "-", "1", "0", "-">> \o TwoDigits(DayOf(i))

\* moment.format("HH:mm"): the seconds are dropped.
FormatHHmm(i) == TwoDigits(HourOf(i)) \o <<":">> \o TwoDigits(MinuteOf(i))

\* ------------------------------------------------- the phrases of the model

Txt_today == <<"t", "o", "d", "a", "y">>

Txt_tomorrow == <<"t", "o", "m", "o", "r", "r", "o", "w">>

Txt_garbage == <<"g", "a", "r", "b", "a", "g", "e">>

Txt_iso01 == <<"2", "0", "2", "5", "-", "1", "0", "-", "0", "1">>

Txt_iso03 == <<"2", "0", "2", "5", "-", "1", "0", "-", "0", "3">>

\* The one text the ISO-date literal of line 36 matches.
Txt_bsDate == <<BS, "d", "d", "d", "d", "-", BS, "d", "d", "-", BS, "d", "d">>

Txt_0900 == <<"0", "9", ":", "0", "0">>

Txt_9am == <<"9", "a", "m">>

Txt_900am == <<"9", ":", "0", "0", "a", "m">>

Txt_12am == <<"1", "2", "a", "m">>

Txt_12pm == <<"1", "2", "p", "m">>

Txt_3pm == <<"3", " ", "p", "m">>

Txt_25 == <<"2", "5">>

Txt_abc == <<"a", "b", "c">>

\* Texts the time literals of lines 61, 63 and 73 match.
Txt_bsHHmm == <<BS, "d", "d", ":", BS, "d", "d">>

Txt_bsAm == <<BS, "d", BS, "a", "m">>

Txt_bsPmMin == <<BS, "D", "d", ":", BS, "d", "d", BS, "s", "P", "M">>

Txt_bsHour == <<BS, "d">>

Txt_45min == <<"4", "5", " ", "m", "i", "n", "u", "t", "e", "s">>

Txt_soon == <<"s", "o", "o", "n">>

Txt_minus5 == <<"-", "5">>

Txt_about45 == <<"a", "b", "o", "u", "t", " ", "4", "5">>

\* --------------------------------------------------------- date resolver

\* /^\\d{4}-\\d{2}-\\d{2}$/.test(s): backslash dddd - backslash dd - backslash dd.
IsoDateRe(s) == s = Txt_bsDate

\* A real YYYY-MM-DD text of the model's calendar (what chrono reads as a date).
IsCalendarDate(s) ==
  /\ Len(s) = 10
  /\ Take(s, 8) = <<"2", "0", "2", "5", "-", "1", "0", "-">>
  /\ s[9] \in Digits /\ s[10] \in Digits
  /\ DigitsToInt(Drop(s, 8)) \in 1..31

NoDate == [ok |-> FALSE, at |-> 0]

\* ChronoParseDate with the forward bias applied to full dates too: a date
\* before the reference day is moved to the reference day.
ChronoParseDate_forward(text, ref) ==
  IF text = Txt_today THEN [ok |-> TRUE, at |-> At(DayOf(ref), 12, 0, 0)]
  ELSE IF text = Txt_tomorrow THEN [ok |-> TRUE, at |-> At(DayOf(ref) + 1, 12, 0, 0)]
  ELSE IF IsCalendarDate(text)
       THEN [ok |-> TRUE,
             at |-> At(IF DigitsToInt(Drop(text, 8)) < DayOf(ref)
                       THEN DayOf(ref) ELSE DigitsToInt(Drop(text, 8)), 12, 0, 0)]
  ELSE NoDate

\* chrono.parseDate(text, ref, {forwardDate: true}) on the phrases of the model:
\* a date at 12:00 (chrono's implied hour), or null.
ChronoParseDate(text, ref) ==
  IF text = Txt_today THEN [ok |-> TRUE, at |-> At(DayOf(ref), 12, 0, 0)]
  ELSE IF text = Txt_tomorrow THEN [ok |-> TRUE, at |-> At(DayOf(ref) + 1, 12, 0, 0)]
  ELSE IF IsCalendarDate(text)
       THEN [ok |-> TRUE, at |-> At(DigitsToInt(Drop(text, 8)), 12, 0, 0)]
  ELSE NoDate

\* normalizeDate giving no date when the phrase cannot be parsed.
normalizeDate_noFallback(raw, callMoment) ==
  LET original == IF raw = Null THEN <<>> ELSE Trim(raw)
      dt == IF original # <<>> THEN ChronoParseDate(original, callMoment) ELSE NoDate
  IN  IF IsoDateRe(original)
      THEN [value |-> original, normalized |-> TRUE, original |-> original]
      ELSE IF dt.ok
      THEN [value |-> FormatDate(dt.at), normalized |-> TRUE, original |-> original]
      ELSE [value |-> <<>>, normalized |-> FALSE, original |-> original]

normalizeDate(raw, callMoment) ==
  LET original == IF raw = Null THEN <<>> ELSE Trim(raw)
      dt == IF original # <<>> THEN ChronoParseDate(original, callMoment) ELSE NoDate
  IN  IF IsoDateRe(original)
      THEN [value |-> original, normalized |-> TRUE, original |-> original]
      ELSE IF dt.ok
      THEN [value |-> FormatDate(dt.at), normalized |-> TRUE, original |-> original]
      ELSE [value |-> FormatDate(callMoment), normalized |-> FALSE, original |-> original]

\* --------------------------------------------------------- time resolver

\* /^\\d{2}:\\d{2}$/.test(s)
HHmmRe(s) == s = Txt_bsHHmm

LowerChar(c) ==
  CASE c = "A" -> "a" [] c = "P" -> "p" [] c = "M" -> "m" [] c = "D" -> "d"
    [] c = "S" -> "s" [] OTHER -> c

RECURSIVE RunOf(_, _)
RunOf(s, c) == IF s # <<>> /\ LowerChar(Head(s)) = c THEN 1 + RunOf(Tail(s), c) ELSE 0

\* The pieces of /^(\\d{1,2})(?::(\\d{2}))?\\s*([ap]m)$/i, left to right.
\* (\\d{1,2}): a backslash and one or two letters d; the number of letters taken.
HourGroupLen(s) ==
  IF s # <<>> /\ Head(s) = BS
  THEN (IF RunOf(Tail(s), "d") > 2 THEN 2 ELSE RunOf(Tail(s), "d")) ELSE 0

\* (?::(\\d{2}))? : a colon, a backslash and dd.
HasMinuteGroup(r) ==
  /\ Len(r) >= 4
  /\ r[1] = ":" /\ r[2] = BS
  /\ LowerChar(r[3]) = "d" /\ LowerChar(r[4]) = "d"

\* \\s* : a backslash and any number of letters s; what follows it.
AfterSeparator(r) ==
  IF r # <<>> /\ Head(r) = BS THEN Drop(r, 1 + RunOf(Tail(r), "s")) ELSE <<>>

\* ([ap]m)$
IsMeridiem(r) == Len(r) = 2 /\ LowerChar(r[1]) \in {"a", "p"} /\ LowerChar(r[2]) = "m"

AmPmGroups(s, k, r1, opt, r3) ==
  IF k >= 1 /\ IsMeridiem(r3)
  THEN [ok |-> TRUE, g1 |-> Take(s, 1 + k),
        g2 |-> IF opt THEN SubSeq(r1, 2, 4) ELSE Null,
        g3 |-> r3]
  ELSE [ok |-> FALSE, g1 |-> <<>>, g2 |-> Null, g3 |-> <<>>]

\* s.match(/^(\\d{1,2})(?::(\\d{2}))?\\s*([ap]m)$/i).  g2 is Null when the
\* optional group is absent.
AmPmMatch(s) ==
  LET k == HourGroupLen(s)
      r1 == Drop(s, 1 + k)
      opt == HasMinuteGroup(r1)
      r3 == AfterSeparator(IF opt THEN Drop(r1, 4) ELSE r1)
  IN  AmPmGroups(s, k, r1, opt, r3)

\* s.match(/^(\\d{1,2})$/): a backslash and one or two letters d.
HourOnlyMatch(s) ==
  IF s \in {<<BS, "d">>, <<BS, "d", "d">>}
  THEN [ok |-> TRUE, g1 |-> s] ELSE [ok |-> FALSE, g1 |-> <<>>]

\* Math.min / Math.max: NaN when an argument is NaN.
MathMin(a, b) == IF a.nan \/ b.nan THEN NaN ELSE IF a.v < b.v THEN a ELSE b

MathMax(a, b) == IF a.nan \/ b.nan THEN NaN ELSE IF a.v > b.v THEN a ELSE b

\* Lines 65-70: the 24-hour text of an am/pm match.
AmPmText(g1, g2, g3) ==
  LET hour == ParseInt(g1)
      minute == IF g2 # Null THEN ParseInt(g2) ELSE Num(0)
      mer == <<LowerChar(g3[1]), LowerChar(g3[2])>>
      pmHour == IF mer = <<"p", "m">> /\ ~hour.nan /\ hour.v < 12 THEN Num(hour.v + 12) ELSE hour
  IN  PadStart2(NumText(IF mer = <<"a", "m">> /\ pmHour = Num(12) THEN Num(0) ELSE pmHour))
        \o <<":">> \o PadStart2(NumText(minute))

\* Lines 75-76: the text of a bare hour.
HourOnlyText(g1) ==
  PadStart2(NumText(MathMax(Num(0), MathMin(Num(23), ParseInt(g1))))) \o <<":", "0", "0">>

TimeOf(s, ampm, hourOnly, fallbackMoment) ==
  IF s = <<>> THEN FormatHHmm(fallbackMoment)
  ELSE IF HHmmRe(s) THEN s
  ELSE IF ampm.ok THEN AmPmText(ampm.g1, ampm.g2, ampm.g3)
  ELSE IF hourOnly.ok THEN HourOnlyText(hourOnly.g1)
  ELSE FormatHHmm(fallbackMoment)

\* parseLocalTimeToHHmm giving no time for an absent phrase.
parseLocalTimeToHHmm_noDefault(raw, fallbackMoment) ==
  IF raw = Null THEN <<>>
  ELSE TimeOf(Trim(raw), AmPmMatch(Trim(raw)), HourOnlyMatch(Trim(raw)), fallbackMoment)

parseLocalTimeToHHmm(raw, fallbackMoment) ==
  IF raw = Null THEN FormatHHmm(fallbackMoment)
  ELSE TimeOf(Trim(raw), AmPmMatch(Trim(raw)), HourOnlyMatch(Trim(raw)), fallbackMoment)

\* ------------------------------------------------------ window builder

\* One token of moment's forgiving (non-strict) parser that reads digits: the
\* first run of one to max digits anywhere in what is left of the input.
RECURSIVE SkipToDigit(_)
SkipToDigit(s) == IF s = <<>> \/ Head(s) \in Digits THEN s ELSE SkipToDigit(Tail(s))

FindDigits(s, max) ==
  LET t == SkipToDigit(s)
      k == IF DigitRun(t) > max THEN max ELSE DigitRun(t)
  IN  IF t = <<>> THEN [found |-> FALSE, v |-> 0, rest |-> s]
      ELSE [found |-> TRUE, v |-> DigitsToInt(Take(t, k)), rest |-> Drop(t, k)]

\* A literal character of the format: the input up to and including its first
\* occurrence is consumed; the input is left alone when it does not occur.
RECURSIVE AfterChar(_, _)
AfterChar(s, c) ==
  IF s = <<>> THEN <<>> ELSE IF Head(s) = c THEN Tail(s) ELSE AfterChar(Tail(s), c)

FindChar(s, c) == IF \E i \in 1..Len(s) : s[i] = c THEN AfterChar(s, c) ELSE s

\* moment.tz(text, "YYYY-MM-DD HH:mm", TZ).  A token that finds nothing leaves
\* its unit at the default (hour and minute 0).  Dates outside October 2025
\* are outside the model's calendar and are reported invalid.
MomentParse(text) ==
  LET y == FindDigits(text, 4)
      mo == FindDigits(FindChar(y.rest, "-"), 2)
      d == FindDigits(FindChar(mo.rest, "-"), 2)
      h == FindDigits(FindChar(d.rest, " "), 2)
      mi == FindDigits(FindChar(h.rest, ":"), 2)
      ok == /\ y.found /\ y.v = 2025
            /\ mo.found /\ mo.v = 10
            /\ d.found /\ d.v \in 1..31
            /\ h.v \in 0..23 /\ mi.v \in 0..59
  IN  IF ok THEN [valid |-> TRUE, at |-> At(d.v, h.v, mi.v, 0)]
      ELSE [valid |-> FALSE, at |-> 0]

\* let duration = 30
DefaultDuration == 30

\* String(rawDuration).replace(/\\D/g, ""): every backslash followed by a
\* capital D is removed; digits and all other characters stay.
RECURSIVE StripBsD(_)
StripBsD(s) ==
  IF Len(s) < 2 THEN s
  ELSE IF s[1] = BS /\ s[2] = "D" THEN StripBsD(Drop(s, 2))
  ELSE <<Head(s)>> \o StripBsD(Tail(s))

\* A duration field of the request body: absent, a JSON number, or a text.
NoDuration == [t |-> "absent", n |-> 0, s |-> <<>>]

NumDuration(n) == [t |-> "num", n |-> n, s |-> <<>>]

TextDuration(s) == [t |-> "str", n |-> 0, s |-> s]

\* DurationOf with a number that is not positive replaced by the default.
DurationOf_positiveOnly(rawDuration) ==
  IF rawDuration.t = "absent" THEN DefaultDuration
  ELSE IF rawDuration.t = "num"
       THEN IF rawDuration.n > 0 THEN rawDuration.n ELSE DefaultDuration
  ELSE LET n == ParseInt(StripBsD(rawDuration.s))
       IN  IF ~n.nan THEN n.v ELSE DefaultDuration

\* Lines 185-192: the duration in minutes.
DurationOf(rawDuration) ==
  IF rawDuration.t = "absent" THEN DefaultDuration
  ELSE IF rawDuration.t = "num" THEN rawDuration.n
  ELSE LET n == ParseInt(StripBsD(rawDuration.s))
       IN  IF ~n.nan THEN n.v ELSE DefaultDuration

\* ApptWindow with the window moved one day later.
ApptWindow_nextDay(dateStr, timeStr, duration) ==
  LET apptMoment == MomentParse(dateStr \o <<" ">> \o timeStr)
  IN  [valid |-> apptMoment.valid,
       start |-> apptMoment.at + SecPerDay,
       end |-> apptMoment.at + SecPerDay + duration * SecPerMin]

\* Lines 194-196: apptMoment, startISO and endISO.  toISOString() of an
\* invalid moment is null (valid = FALSE).
ApptWindow(dateStr, timeStr, duration) ==
  LET apptMoment == MomentParse(dateStr \o <<" ">> \o timeStr)
  IN  [valid |-> apptMoment.valid,
       start |-> apptMoment.at,
       end |-> apptMoment.at + duration * SecPerMin]

\* ------------------------------------------------------------ the server

VARIABLES
  env,       \* process.env: TOOL_SECRET (line 14), Google credentials (87-89)
  external,  \* busy intervals on the calendar that the server did not create
  events,    \* events the server's events.insert calls have created
  pc,        \* per request: idle, query (awaiting line 201), insert (awaiting 236), done
  body,      \* per request: the body, the token header and the call instant
  loc,       \* per request: the handler's locals (lines 165-196)
  log,       \* per request: the calendar calls sent and the answers received
  resp       \* per request: the response sent

vars == <<env, external, events, pc, body, loc, log, resp>>

\* The requests the server may be handling at once.
Requests == {"r1", "r2"}

\* Instants a request's call context resolves to (lines 164-167: the header
\* timestamp, else body.callTimestamp, else the clock, in the business zone).
CallInstants == {At(2, 10, 30, 0), At(2, 15, 0, 30)}

DatePhrases ==
  {Null, <<>>, Txt_garbage, Txt_iso01, Txt_iso03, Txt_today, Txt_tomorrow, Txt_bsDate}

TimePhrases ==
  {Null, <<>>, Txt_0900, Txt_9am, Txt_900am, Txt_12am, Txt_12pm, Txt_3pm, Txt_25,
   Txt_abc, Txt_bsHHmm, Txt_bsAm, Txt_bsPmMin, Txt_bsHour}

Durations ==
  {NoDuration, NumDuration(0), NumDuration(0 - 5), NumDuration(45),
   TextDuration(Txt_45min), TextDuration(Txt_soon), TextDuration(Txt_about45)}

\* The X-Auth-Token header: absent, or a value.
Tokens == {"", "s3cret"}

\* body.autoBook: absent, false or true.
AutoBookValues == {"absent", "false", "true"}

\* The request bodies of the model (with the header and the call instant).
Bodies ==
  [date : DatePhrases, time : TimePhrases, duration : Durations,
   autoBook : AutoBookValues, token : Tokens, call : CallInstants]

\* The bodies of the two-request load: one date, one time, both call instants.
LeanBodies ==
  [date : {Txt_tomorrow, Txt_today}, time : {Null}, duration : {NoDuration, NumDuration(45)},
   autoBook : {"absent"}, token : Tokens, call : CallInstants]

NoBody ==
  [date |-> Null, time |-> Null, duration |-> NoDuration,
   autoBook |-> "absent", token |-> "", call |-> 0]

\* The handler's local variables that live across its awaits.
NoLoc ==
  [callMoment |-> 0, dateStr |-> <<>>, dateNormalized |-> FALSE,
   originalDatePhrase |-> <<>>, timeStr |-> <<>>, duration |-> 0,
   autoBook |-> FALSE, valid |-> FALSE, start |-> 0, end |-> 0]

\* Line 157: TOOL_SECRET && req.get("X-Auth-Token") !== TOOL_SECRET
Unauthorized(b) == env.TOOL_SECRET # "" /\ b.token # env.TOOL_SECRET

\* AutoBook read from the request body.
AutoBook_fromBody(b) == b.autoBook = "true"

\* Lines 176-177: "Always auto-book (no confirmation step)"; body.autoBook is
\* not read.
AutoBook(b) == TRUE

\* Lines 164-196: the call context, the date, the time, the duration and the
\* appointment window.
Locals(b) ==
  LET callMoment == b.call
      nd == normalizeDate(b.date, callMoment)
      timeStr == parseLocalTimeToHHmm(b.time, callMoment)
      duration == DurationOf(b.duration)
      w == ApptWindow(nd.value, timeStr, duration)
  IN  [callMoment |-> callMoment, dateStr |-> nd.value,
       dateNormalized |-> nd.normalized, originalDatePhrase |-> nd.original,
       timeStr |-> timeStr, duration |-> duration, autoBook |-> AutoBook(b),
       valid |-> w.valid, start |-> w.start, end |-> w.end]

\* Lines 86-98: makeGcalClientOrThrow throws when a Google credential is missing.
GcalClientThrows == ~env.credsOk

\* ---- responses (res.json bodies) ----

Response(status, isFree, eventId, message) ==
  [status |-> status, isFree |-> isFree, eventId |-> eventId, message |-> message]

NoResponse == Response(0, "absent", "absent", "")

\* Line 158
UnauthorizedResponse == Response(401, "absent", "absent", "Unauthorized")

\* Lines 213-217
BusyResponse == Response(200, "false", "null", "is already booked")

\* FreebusyErrorResponse answering a failed query with the busy template.
FreebusyErrorResponse_asBusy == Response(200, "false", "null", "is already booked")

\* Lines 221-226
FreebusyErrorResponse == Response(200, "false", "null", "Google auth is not ready")

\* CreateErrorResponse answering a failed creation with the busy template.
CreateErrorResponse_asBusy == Response(200, "false", "null", "is already booked")

\* Lines 251-256
CreateErrorResponse == Response(200, "true", "null", "Slot is free, but I couldn't create the event")

\* Lines 259-262
BookedResponse(eventId) == Response(200, "true", eventId, "Booked")

\* ---- the calendar service ----

\* The identifier the calendar gives the event a request creates.
EventIdOf(r) == IF r = "r1" THEN "ev1" ELSE "ev2"

\* BusyIn with a reservation: the window of a request whose create call is
\* under way counts as busy too.
BusyIn_withPending(timeMin, timeMax) ==
  {e \in external \cup {[start |-> v.start, end |-> v.end] : v \in events}
          \cup {[start |-> loc[q].start, end |-> loc[q].end] :
                  q \in {x \in Requests : pc[x] = "insert"}} :
     e.start < timeMax /\ timeMin < e.end}

\* The calendar's busy intervals that overlap [timeMin, timeMax).
BusyIn(timeMin, timeMax) ==
  {e \in external \cup {[start |-> v.start, end |-> v.end] : v \in events} :
     e.start < timeMax /\ timeMin < e.end}

\* The answer of freebusy.query for the window of l.  The answer either holds
\* an entry for the calendar with its busy list ("ok"), or holds no such
\* entry ("noEntry": nothing is reported for the calendar).
FreebusyAnswer(outcome, l) ==
  [hasEntry |-> outcome = "ok",
   busy |-> IF outcome = "ok" THEN BusyIn(l.start, l.end) ELSE {}]

\* BusyList with the lookup missing the calendar's entry: every answer reads as empty.
BusyList_noEntry(fb) == {}

\* Line 209: fb.data.calendars?.[CALENDAR_ID]?.busy || []
BusyList(fb) == IF fb.hasEntry THEN fb.busy ELSE {}

\* IsFree with the test on the busy list lost.
IsFree_always(busy) == TRUE

\* Line 210: isFree = busy.length === 0
IsFree(busy) == busy = {}

\* One entry of a request's record of calendar traffic: a call sent or an
\* answer received, with the window it carries and the busy list it reports.
Call(op, l, busy) ==
  [op |-> op, valid |-> l.valid, start |-> l.start, end |-> l.end, busy |-> busy]

\* ---- the handler, one action per run between two awaits ----

Finish(r, response) ==
  /\ pc' = [pc EXCEPT ![r] = "done"]
  /\ resp' = [resp EXCEPT ![r] = response]

\* Lines 156-159: the request is refused.
RejectUnauthorized(r, b) ==
  /\ pc[r] = "idle"
  /\ Unauthorized(b)
  /\ body' = [body EXCEPT ![r] = b]
  /\ Finish(r, UnauthorizedResponse)
  /\ UNCHANGED <<env, external, events, loc, log>>

\* Lines 156-201 and 219-227: the window is built; with a credential missing
\* makeGcalClientOrThrow throws and the first catch answers.
ReceiveWithoutCreds(r, b) ==
  /\ pc[r] = "idle"
  /\ ~Unauthorized(b)
  /\ GcalClientThrows
  /\ body' = [body EXCEPT ![r] = b]
  /\ loc' = [loc EXCEPT ![r] = Locals(b)]
  /\ Finish(r, FreebusyErrorResponse)
  /\ UNCHANGED <<env, external, events, log>>

\* Lines 156-208: the window is built and the free/busy query is sent.
Receive(r, b) ==
  /\ pc[r] = "idle"
  /\ ~Unauthorized(b)
  /\ ~GcalClientThrows
  /\ body' = [body EXCEPT ![r] = b]
  /\ loc' = [loc EXCEPT ![r] = Locals(b)]
  /\ log' = [log EXCEPT ![r] = Append(@, Call("freebusy.query", loc'[r], {}))]
  /\ pc' = [pc EXCEPT ![r] = "query"]
  /\ UNCHANGED <<env, external, events, resp>>

\* Lines 219-227: the query throws (transport fault, time-out, rejected
\* request).  A query whose timeMin and timeMax are null (an invalid moment)
\* is always rejected by the service: both are required.
FreebusyThrows(r) ==
  /\ pc[r] = "query"
  /\ log' = [log EXCEPT ![r] = Append(@, Call("freebusy.error", loc[r], {}))]
  /\ Finish(r, FreebusyErrorResponse)
  /\ UNCHANGED <<env, external, events, body, loc>>

\* Lines 209-218: the query answers and the handler reads it as busy.
FreebusyBusy(r, outcome) ==
  /\ pc[r] = "query"
  /\ loc[r].valid
  /\ ~IsFree(BusyList(FreebusyAnswer(outcome, loc[r])))
  /\ log' = [log EXCEPT ![r] =
               Append(@, Call("freebusy.answer", loc[r], FreebusyAnswer(outcome, loc[r]).busy))]
  /\ Finish(r, BusyResponse)
  /\ UNCHANGED <<env, external, events, body, loc>>

\* Lines 209-247: the query answers and the handler reads it as free; it
\* builds a second client and sends the create-event call.
FreebusyFree(r, outcome) ==
  /\ pc[r] = "query"
  /\ loc[r].valid
  /\ IsFree(BusyList(FreebusyAnswer(outcome, loc[r])))
  /\ IF GcalClientThrows
     THEN /\ log' = [log EXCEPT ![r] =
                       Append(@, Call("freebusy.answer", loc[r],
                                      FreebusyAnswer(outcome, loc[r]).busy))]
          /\ Finish(r, CreateErrorResponse)
     ELSE /\ log' = [log EXCEPT ![r] = @ \o
                       <<Call("freebusy.answer", loc[r], FreebusyAnswer(outcome, loc[r]).busy),
                         Call("events.insert", loc[r], {})>>]
          /\ pc' = [pc EXCEPT ![r] = "insert"]
          /\ UNCHANGED resp
  /\ UNCHANGED <<env, external, events, body, loc>>

\* The event the create call of request r puts on the calendar.
EventOf(r) == [id |-> EventIdOf(r), start |-> loc[r].start, end |-> loc[r].end, by |-> r]

\* EventIdFrom without the "|| null": a missing id stays undefined and the
\* response carries no eventId.
EventIdFrom_undefined(r, hasId) == IF hasId THEN EventIdOf(r) ELSE "absent"

\* Line 248: eventId = ev.data.id || null
EventIdFrom(r, hasId) == IF hasId THEN EventIdOf(r) ELSE "null"

\* Lines 236-248 and 259-281: the event is created and the booking is reported.
InsertCreated(r, hasId) ==
  /\ pc[r] = "insert"
  /\ events' = events \cup {EventOf(r)}
  /\ log' = [log EXCEPT ![r] = Append(@, Call("insert.created", loc[r], {}))]
  /\ Finish(r, BookedResponse(EventIdFrom(r, hasId)))
  /\ UNCHANGED <<env, external, body, loc>>

\* InsertThrows with the create try's catch missing: the fault leaves the
\* handler and the request ends with no response of the handler.
InsertThrows_unhandled(r, stored) ==
  /\ pc[r] = "insert"
  /\ events' = IF stored THEN events \cup {EventOf(r)} ELSE events
  /\ log' = [log EXCEPT ![r] = Append(@, Call("insert.error", loc[r], {}))]
  /\ pc' = [pc EXCEPT ![r] = "done"]
  /\ UNCHANGED <<env, external, body, loc, resp>>

\* Lines 249-257: the create call throws; the calendar may or may not have
\* stored the event before the fault (a time-out on the reply).
InsertThrows(r, stored) ==
  /\ pc[r] = "insert"
  /\ events' = IF stored THEN events \cup {EventOf(r)} ELSE events
  /\ log' = [log EXCEPT ![r] = Append(@, Call("insert.error", loc[r], {}))]
  /\ Finish(r, CreateErrorResponse)
  /\ UNCHANGED <<env, external, body, loc>>

\* ---- specifications ----

\* Process configuration (lines 14 and 87-98) and the calendar's other events.
Init ==
  /\ env \in [TOOL_SECRET : {"", "s3cret"}, credsOk : BOOLEAN]
  /\ external \in {{}, {[start |-> At(3, 0, 0, 0), end |-> At(4, 0, 0, 0)]}}
  /\ events = {}
  /\ pc = [r \in Requests |-> "idle"]
  /\ body = [r \in Requests |-> NoBody]
  /\ loc = [r \in Requests |-> NoLoc]
  /\ log = [r \in Requests |-> <<>>]
  /\ resp = [r \in Requests |-> NoResponse]

\* What the calendar and the handler do once a request is in.
Serve(r) ==
  \/ FreebusyThrows(r)
  \/ \E outcome \in {"ok", "noEntry"} : FreebusyBusy(r, outcome)
  \/ \E outcome \in {"ok", "noEntry"} : FreebusyFree(r, outcome)
  \/ \E hasId \in BOOLEAN : InsertCreated(r, hasId)
  \/ \E stored \in BOOLEAN : InsertThrows(r, stored)

\* One request, any body.
Next ==
  \/ pc["r1"] = "idle" /\ \E b \in Bodies : RejectUnauthorized("r1", b)
  \/ pc["r1"] = "idle" /\ \E b \in Bodies : ReceiveWithoutCreds("r1", b)
  \/ pc["r1"] = "idle" /\ \E b \in Bodies : Receive("r1", b)
  \/ Serve("r1")

Spec == Init /\ [][Next]_vars

\* One request, with every await of the handler settling: a calendar call that
\* was sent answers or throws (lines 201, 236; a time-out of the client is a
\* throw).
SpecFair == Spec /\ WF_vars(Serve("r1"))

\* Two requests in any interleaving, bodies of the two-request load.
NextRace ==
  \E r \in Requests :
    \/ pc[r] = "idle" /\ \E b \in LeanBodies : RejectUnauthorized(r, b)
    \/ pc[r] = "idle" /\ \E b \in LeanBodies : ReceiveWithoutCreds(r, b)
    \/ pc[r] = "idle" /\ \E b \in LeanBodies : Receive(r, b)
    \/ Serve(r)

SpecRace == Init /\ [][NextRace]_vars

\* ------------------------------------------------------------ properties

\* The request was let in: it passed the token check of line 157.
Handled(r) == pc[r] # "idle" /\ ~Unauthorized(body[r])

HasOp(r, op) == \E i \in DOMAIN log[r] : log[r][i].op = op

CountOp(r, op) == Cardinality({i \in DOMAIN log[r] : log[r][i].op = op})

\* The availability query of r has answered, and with no busy interval.
AnsweredFree(r) ==
  \E i \in DOMAIN log[r] : log[r][i].op = "freebusy.answer" /\ log[r][i].busy = {}

\* The availability query of r has answered, and with a busy interval.
AnsweredBusy(r) ==
  \E i \in DOMAIN log[r] : log[r][i].op = "freebusy.answer" /\ log[r][i].busy # {}

\* The booking outcome a response stands for, by its message template.
Outcome(x) ==
  CASE x.message = "Booked" -> "Booked"
    [] x.message = "is already booked" -> "SlotBusy"
    [] x.message = "Google auth is not ready" -> "AvailabilityCheckFailed"
    [] x.message = "Slot is free, but I couldn't create the event" -> "CreateFailed"
    [] x.message = "Unauthorized" -> "Unauthorized"
    [] OTHER -> "none"

\* C1: within one request a create-event call is sent only after the availability
\* query of that request was sent and has answered with no busy interval.
C1_CreateOnlyAfterFree ==
  \A r \in Requests : \A i \in DOMAIN log[r] :
    log[r][i].op = "events.insert" =>
      \E j \in 1..(i - 1) :
        /\ log[r][j].op = "freebusy.answer" /\ log[r][j].busy = {}
        /\ \E k \in 1..(j - 1) : log[r][k].op = "freebusy.query"
        /\ \A m \in 1..(i - 1) : log[r][m].op # "events.insert"

C1_Witness == \E r \in Requests : HasOp(r, "events.insert") /\ external # {}

\* C2: when the availability query answers with a non-empty busy list, the request
\* ends as SlotBusy (isFree false, eventId null) and sends no create-event call.
C2_BusyNeverCreates ==
  \A r \in Requests :
    AnsweredBusy(r) =>
      /\ pc[r] = "done"
      /\ resp[r].isFree = "false" /\ resp[r].eventId = "null"
      /\ Outcome(resp[r]) = "SlotBusy"
      /\ ~HasOp(r, "events.insert")

C2_Witness == \E r \in Requests : AnsweredBusy(r) /\ pc[r] = "done"

\* C3: when the query answers free and auto-booking is requested, the create-event
\* call is sent exactly once; when it fails the request ends as CreateFailed with
\* isFree true and eventId null, never as SlotBusy.
C3_CreateOnceFailureIsCreateFailed ==
  \A r \in Requests :
    (body[r].autoBook = "true" /\ AnsweredFree(r)) =>
      /\ CountOp(r, "events.insert") = 1
      /\ HasOp(r, "insert.error") =>
           /\ pc[r] = "done"
           /\ resp[r].isFree = "true" /\ resp[r].eventId = "null"
           /\ Outcome(resp[r]) = "CreateFailed"

C3_Witness ==
  \E r \in Requests : body[r].autoBook = "true" /\ HasOp(r, "insert.error")

\* C5: when the availability query cannot be completed (a missing credential, a
\* thrown error, a time-out) the request ends as AvailabilityCheckFailed with
\* isFree false and eventId null, never as SlotBusy or Booked, and sends no
\* create-event call.
C5_QueryFailureIsAvailabilityCheckFailed ==
  \A r \in Requests :
    (HasOp(r, "freebusy.error") \/ (Handled(r) /\ GcalClientThrows)) =>
      /\ pc[r] = "done"
      /\ resp[r].isFree = "false" /\ resp[r].eventId = "null"
      /\ Outcome(resp[r]) = "AvailabilityCheckFailed"
      /\ ~HasOp(r, "events.insert")

C5_Witness == \E r \in Requests : HasOp(r, "freebusy.error")

\* The date phrase of r is a full YYYY-MM-DD date.
ExplicitDate(r) == body[r].date # Null /\ IsCalendarDate(Trim(body[r].date))

\* The day of the month an explicit date names.
ExplicitDay(r) == DigitsToInt(Drop(Trim(body[r].date), 8))

\* A text of the form HH:mm that is a time of day.
IsClockTime(s) ==
  /\ Len(s) = 5 /\ s[3] = ":"
  /\ \A i \in {1, 2, 4, 5} : s[i] \in Digits
  /\ DigitsToInt(Take(s, 2)) \in 0..23 /\ DigitsToInt(Drop(s, 3)) \in 0..59

\* The date and the time as resolved, combined with nothing added.
NaiveStart(r) == MomentParse(loc[r].dateStr \o <<" ">> \o loc[r].timeStr).at

\* Time phrases that none of the three patterns of the time resolver covers.
UnmatchedTimes == {Txt_abc, Txt_25}

\* C4 as stated: an unresolved date or time phrase stops the request with isFree
\* false and neither calendar call is made.
C4_Original_ParseFailureStops ==
  \A r \in Requests :
    (Handled(r) /\ (~loc[r].dateNormalized \/ body[r].time \in UnmatchedTimes)) =>
      /\ ~HasOp(r, "freebusy.query") /\ ~HasOp(r, "events.insert")
      /\ pc[r] = "done" /\ resp[r].isFree = "false"

\* C4 amended: a date phrase that cannot be resolved does not stop the request;
\* the date becomes the call-context date with normalized = false, a time phrase
\* no pattern matches becomes the call-context HH:mm, and the availability query
\* is sent for the window built from them.
C4_UnresolvedFallsBackAndQueries ==
  \A r \in Requests :
    Handled(r) =>
      /\ ~loc[r].dateNormalized =>
           /\ loc[r].dateStr = FormatDate(body[r].call)
           /\ DayOf(loc[r].start) = DayOf(body[r].call)
      /\ body[r].time = Txt_abc => loc[r].timeStr = FormatHHmm(body[r].call)
      /\ (~loc[r].dateNormalized /\ ~GcalClientThrows) =>
           /\ loc[r].valid
           /\ log[r][1] = Call("freebusy.query", loc[r], {})

C4_Witness ==
  \E r \in Requests :
    /\ body[r].date = Txt_garbage /\ body[r].time = Txt_3pm
    /\ ~loc[r].dateNormalized /\ loc[r].dateStr = FormatDate(body[r].call)
    /\ HasOp(r, "freebusy.query")

\* C6 as stated: a request that does not carry autoBook = true never sends a
\* create-event call.
C6_Original_NoCreateWithoutAutoBook ==
  \A r \in Requests : body[r].autoBook # "true" => ~HasOp(r, "events.insert")

\* C6 amended: the autoBook field of the request is not read; auto-booking is
\* always on, so after a free availability answer the create-event call is sent
\* whether the request carries autoBook or not.
C6_AutoBookAlwaysOn ==
  \A r \in Requests :
    Handled(r) =>
      /\ loc[r].autoBook = TRUE
      /\ AnsweredFree(r) => HasOp(r, "events.insert")

C6_Witness ==
  \E r \in Requests : body[r].autoBook = "false" /\ HasOp(r, "insert.created")

\* C7 as stated: an explicit date whose window starts before the call instant
\* fails at validation; no calendar call is made and no event is created.
C7_Original_PastWindowRejected ==
  \A r \in Requests :
    (Handled(r) /\ ExplicitDate(r) /\ loc[r].valid /\ loc[r].start < body[r].call) =>
      /\ ~HasOp(r, "freebusy.query") /\ ~HasOp(r, "events.insert")
      /\ \A e \in events : e.by # r

\* C7 amended: an explicit date is never validated against the call instant and
\* there is no PastWindow outcome; a window that starts before the call instant
\* is left in the past, the availability query is sent for it and, when that
\* answers free, the create-event call is sent for it.
C7_PastWindowIsQueriedAndCreated ==
  \A r \in Requests :
    (Handled(r) /\ ExplicitDate(r)) =>
      /\ ExplicitDay(r) < DayOf(body[r].call) => (loc[r].valid /\ loc[r].start < body[r].call)
      /\ (loc[r].valid /\ loc[r].start < body[r].call /\ ~GcalClientThrows) =>
           /\ log[r][1] = Call("freebusy.query", loc[r], {})
           /\ AnsweredFree(r) => log[r][3] = Call("events.insert", loc[r], {})
           /\ \A e \in events : e.by = r => e.start = loc[r].start

C7_Witness ==
  \E r \in Requests :
    /\ ExplicitDate(r) /\ loc[r].start < body[r].call
    /\ Outcome(resp[r]) = "Booked"
    /\ \E e \in events : e.by = r /\ e.start < body[r].call

\* C8 as stated: for an explicit date D and a valid HH:mm time T the window (sent
\* to the calendar as timeMin) starts exactly at D, T; both are taken verbatim.
C8_Original_ExplicitDateTimeVerbatim ==
  \A r \in Requests :
    (/\ HasOp(r, "freebusy.query") /\ ExplicitDate(r)
     /\ body[r].time # Null /\ IsClockTime(Trim(body[r].time))) =>
      /\ loc[r].valid
      /\ loc[r].timeStr = Trim(body[r].time)
      /\ loc[r].start = At(ExplicitDay(r), DigitsToInt(Take(Trim(body[r].time), 2)),
                           DigitsToInt(Drop(Trim(body[r].time), 3)), 0)

\* The date of r was inferred: resolved from a phrase that is not an ISO date,
\* for the code (line 36) or in fact.
InferredDate(r) ==
  loc[r].dateNormalized /\ ~ExplicitDate(r) /\ ~IsoDateRe(loc[r].originalDatePhrase)

\* C9 as stated: an inferred date whose naive combination with the time is before the
\* call instant gives a window exactly one day after the naive combination;
\* otherwise no day is added.
C9_Original_PastInferredRollsOneDay ==
  \A r \in Requests :
    (HasOp(r, "freebusy.query") /\ InferredDate(r) /\ loc[r].valid) =>
      loc[r].start = IF NaiveStart(r) < body[r].call
                     THEN NaiveStart(r) + SecPerDay ELSE NaiveStart(r)

\* C9 amended: for every inferred date the window starts exactly at the naive
\* combination of the resolved date and the parsed time; no day is ever added,
\* also when the naive combination is before the call instant.
C9_NoDayAdded ==
  \A r \in Requests :
    (Handled(r) /\ InferredDate(r) /\ loc[r].valid) =>
      /\ loc[r].start = NaiveStart(r)
      /\ \A i \in DOMAIN log[r] : log[r][i].start = NaiveStart(r)

C9_Witness ==
  \E r \in Requests :
    /\ Handled(r) /\ InferredDate(r)
    /\ loc[r].valid /\ loc[r].start < body[r].call
    /\ HasOp(r, "events.insert")

\* C10 as stated: "9am", "9:00am" and "09:00" resolve to 09:00, "12am" to 00:00,
\* "12pm" to 12:00; "25" and "abc" resolve to no time of day.
C10_Original_TimePatterns ==
  \A r \in Requests :
    Handled(r) =>
      /\ body[r].time \in {Txt_9am, Txt_900am, Txt_0900} => loc[r].timeStr = Txt_0900
      /\ body[r].time = Txt_12am => loc[r].timeStr = <<"0", "0", ":", "0", "0">>
      /\ body[r].time = Txt_12pm => loc[r].timeStr = <<"1", "2", ":", "0", "0">>
      /\ body[r].time \in UnmatchedTimes => ~IsClockTime(loc[r].timeStr)

\* The digits of a text, in order.
RECURSIVE DigitsOf(_)
DigitsOf(s) ==
  IF s = <<>> THEN <<>>
  ELSE IF Head(s) \in Digits THEN <<Head(s)>> \o DigitsOf(Tail(s)) ELSE DigitsOf(Tail(s))

\* C11 as stated: a duration phrase containing digits resolves to the integer
\* those digits spell; an absent duration or a phrase without digits resolves
\* to 30; a number, 0 and negative numbers included, is taken as given.
C11_Original_DurationResolution ==
  \A r \in Requests :
    Handled(r) =>
      /\ (body[r].duration.t = "str" /\ DigitsOf(body[r].duration.s) # <<>>) =>
           loc[r].duration = DigitsToInt(DigitsOf(body[r].duration.s))
      /\ (body[r].duration.t = "str" /\ DigitsOf(body[r].duration.s) = <<>>) =>
           loc[r].duration = DefaultDuration
      /\ body[r].duration.t = "absent" => loc[r].duration = DefaultDuration
      /\ body[r].duration.t = "num" => loc[r].duration = body[r].duration.n

\* A phrase that is absent (null or undefined) or empty.
AbsentOrEmpty == {Null, <<>>}

\* C12 as stated: an absent or empty date phrase gives no date and an absent or
\* empty time phrase gives no time; neither is replaced by the date or the time
\* of the call context.
C12_Original_AbsentIsUnresolved ==
  \A r \in Requests :
    Handled(r) =>
      /\ body[r].date \in AbsentOrEmpty => ~IsCalendarDate(loc[r].dateStr)
      /\ body[r].time \in AbsentOrEmpty => ~IsClockTime(loc[r].timeStr)

\* C12 amended: an absent or empty date phrase resolves to the date of the call
\* context, marked normalized = false, and an absent or empty time phrase
\* resolves to the HH:mm of the call context; with both absent the window
\* starts at the call instant with its seconds dropped.
C12_AbsentDefaultsToCallContext ==
  \A r \in Requests :
    Handled(r) =>
      /\ body[r].date \in AbsentOrEmpty =>
           /\ loc[r].dateStr = FormatDate(body[r].call)
           /\ ~loc[r].dateNormalized /\ loc[r].originalDatePhrase = <<>>
      /\ body[r].time \in AbsentOrEmpty => loc[r].timeStr = FormatHHmm(body[r].call)
      /\ (body[r].date \in AbsentOrEmpty /\ body[r].time \in AbsentOrEmpty) =>
           /\ loc[r].valid
           /\ loc[r].start = body[r].call - (body[r].call % SecPerMin)

C12_Witness ==
  \E r \in Requests :
    /\ body[r].date = Null /\ body[r].time = <<>>
    /\ HasOp(r, "freebusy.query")
    /\ loc[r].start = At(2, 15, 0, 0) /\ body[r].call = At(2, 15, 0, 30)

\* A response body carrying isFree, eventId and message.
WellFormed(x) ==
  /\ x.isFree \in {"true", "false"}
  /\ x.eventId # "absent"
  /\ x.message # ""

SentCalls(r) ==
  {i \in DOMAIN log[r] : log[r][i].op \in {"freebusy.query", "events.insert"}}

\* C14 as stated: every window sent to the calendar, as timeMin/timeMax of the
\* availability query or as start/end of the event to create, has
\* end = start + duration and end > start.
C14_Original_EndAfterStart ==
  \A r \in Requests : \A i \in SentCalls(r) :
    log[r][i].valid =>
      /\ log[r][i].end = log[r][i].start + loc[r].duration * SecPerMin
      /\ log[r][i].end > log[r][i].start

\* C14 amended: every window built from a date and a time that form an instant
\* is sent with end = start + duration, the duration being the number of the
\* request taken as given; end > start holds exactly when the duration is
\* positive: a duration of 0 is sent as end = start and a negative duration as
\* end before start.
C14_EndIsStartPlusDuration ==
  \A r \in Requests : \A i \in SentCalls(r) :
    log[r][i].valid =>
      /\ log[r][i].start = loc[r].start
      /\ log[r][i].end = log[r][i].start + loc[r].duration * SecPerMin
      /\ body[r].duration.t = "num" =>
           log[r][i].end = log[r][i].start + body[r].duration.n * SecPerMin
      /\ log[r][i].end > log[r][i].start <=> loc[r].duration > 0

C14_Witness ==
  \E r \in Requests : \E i \in SentCalls(r) :
    /\ log[r][i].op = "freebusy.query" /\ log[r][i].valid
    /\ body[r].duration = NumDuration(0 - 5)
    /\ log[r][i].end = log[r][i].start - 5 * SecPerMin

Overlap(e, f) == e.start < f.end /\ f.start < e.end

\* C15: nothing serializes the check-then-create sequence across requests.  A
\* request's query is answered free whenever no event stored on the calendar
\* overlaps its window, also while the other request is between its own free
\* answer and its create call; and a create call that was sent is carried out
\* whatever the other request has created meanwhile.  So two requests for
\* overlapping windows can both be answered free before either creates, and
\* both then create an event (the witness).
C15_NothingSerializes ==
  \A r \in Requests :
    /\ (/\ pc[r] = "query" /\ loc[r].valid
        /\ \A e \in external \cup events : ~Overlap(e, loc[r])) =>
         ENABLED FreebusyFree(r, "ok")
    /\ pc[r] = "insert" => ENABLED InsertCreated(r, TRUE)

C15_Witness ==
  /\ external = {}
  /\ \A r \in Requests : AnsweredFree(r) /\ Outcome(resp[r]) = "Booked"
  /\ \E e \in events : \E f \in events :
       e.by = "r1" /\ f.by = "r2" /\ e.id # f.id /\ Overlap(e, f)

====
